---- MODULE Spec2Model ----
(***************************************************************************)
(* FERPA waiver merger: identifier extraction, matching of uploaded PDFs   *)
(* to identifiers, in-memory assembly and the interactive session          *)
(* (src/app.py), with the command-line variant's helpers                   *)
(* (src/generate_pdf_request.py, src/pdf_merger.py).                       *)
(*                                                                         *)
(* Text is a sequence of one-character strings, so that prefix tests are   *)
(* computed character by character.                                        *)
(***************************************************************************)
EXTENDS Integers, Sequences, FiniteSets, TLC

VARIABLES
    pc,             \* position of the call or script run being modelled
    excel_file,     \* the uploaded spreadsheet (one column, top row first)
    extract_result, \* outcome of read_eyf_ids_from_excel
    eyf_ids,        \* st.session_state.eyf_ids / the matcher's eyf_ids argument
    uploaded_pdfs,  \* st.session_state.uploaded_pdfs / the matcher's uploaded_files
    match_results,  \* st.session_state.match_results / the matcher's return value
    pdf_items,      \* the argument of merge_pdfs_in_memory
    merge_state,    \* writer, successful and errors when the loop has ended
    merge_return,   \* the tuple merge_pdfs_in_memory returns
    merged_pdf,     \* st.session_state.merged_pdf
    widgets,        \* the files the two st.file_uploader widgets hold
    ui,             \* what the latest script run displayed
    disk,           \* the waiver folder and the output path on disk
    merge_call,     \* a call of merge_pdfs: its arguments and what it did
    cli,            \* the run of main() of generate_pdf_request.py
    report,         \* the arguments and the text of generate_missing_report
    merge_pos,      \* the item the loop of merge_pdfs_in_memory has come to
    stopped_runs    \* the script runs of the session that were stopped

vars == <<pc, excel_file, extract_result, eyf_ids, uploaded_pdfs, match_results,
          pdf_items, merge_state, merge_return, merged_pdf, widgets, ui,
          disk, merge_call, cli, report, merge_pos, stopped_runs>>

----------------------------------------------------------------------------
(* Bounds of the model *)

MaxSheet == 4
MaxIds == 3
MaxPool == 3
MaxItems == 3
MaxUpload == 3
MaxPaths == 3
MaxFolder == 3
MaxMissing == 2
MaxDuplicates == 2
MaxStopped == 1

----------------------------------------------------------------------------
(* Text helpers *)

DigitChars == <<"0", "1", "2", "3", "4", "5", "6", "7", "8", "9">>

RECURSIVE Str(_)
\* str(n) of a non-negative int: its decimal digits, no leading zero
Str(n) == IF n < 10 THEN <<DigitChars[n + 1]>>
          ELSE Str(n \div 10) \o <<DigitChars[(n % 10) + 1]>>

\* s.startswith(p)
StartsWith(s, p) == /\ Len(p) <= Len(s)
                    /\ \A i \in 1..Len(p) : s[i] = p[i]

\* list.count(x)
Count(seq, x) == Cardinality({i \in DOMAIN seq : seq[i] = x})

\* set(seq)
Range(seq) == {seq[i] : i \in DOMAIN seq}

\* the sequences over S of length at most n
SeqsUpTo(S, n) == UNION {[1..k -> S] : k \in 0..n}

\* the lists over S without repeats, of length at most n
DistinctSeqsUpTo(S, n) ==
    {s \in SeqsUpTo(S, n) : \A i, j \in DOMAIN s : s[i] = s[j] => i = j}

----------------------------------------------------------------------------
(* Identifier extraction: read_eyf_ids_from_excel *)

\* A cell of the identifier column. A number cell holds num/2, so that 3 is
\* the cell 1.5; a text cell holds text.
NanCell == [kind |-> "nan", num |-> 0, text |-> ""]
NumCell(h) == [kind |-> "num", num |-> h, text |-> ""]
StrCell(t) == [kind |-> "str", num |-> 0, text |-> t]

column_name == StrCell("EYFID")

\* a text that int() rejects, and a text that the reader takes for a missing
\* value
NoNumberText == "abc"
MissingText == "n/a"

\* the numbers of the cells are given in halves: 1, 1.5, 2 and 12
Cells ==
    {NanCell, column_name, StrCell(NoNumberText), StrCell(MissingText)}
        \cup {NumCell(h) : h \in {2, 3, 4, 24}}

Sheets == SeqsUpTo(Cells, MaxSheet)

\* The texts that pd.read_excel, called without na_values, keep_default_na
\* or na_filter, reads as a missing value.
DefaultNaStrings ==
    {"", "#N/A", "#N/A N/A", "#NA", "-1.#IND", "-1.#QNAN", "-NaN", "-nan",
     "1.#IND", "1.#QNAN", "<NA>", "N/A", "NA", "NULL", "NaN", "None", "n/a",
     "nan", "null"}

\* a data cell as the parse hands it over: a text among the default missing
\* values becomes NaN
ReadCell(c) ==
    IF c.kind = "str" /\ c.text \in DefaultNaStrings THEN NanCell ELSE c

\* what a parse returns, or the ValueError that pd.read_excel raises
Frame(columns, data) == [raised |-> FALSE, columns |-> columns, data |-> data]
HeaderBeyondRows == [raised |-> TRUE, columns |-> {}, data |-> <<>>]

\* The rows the reader hands to the parser: the trailing rows that hold only
\* empty cells are cut off.
LastRowWithData(sheet) ==
    IF \A i \in DOMAIN sheet : sheet[i].kind = "nan" THEN 0
    ELSE CHOOSE i \in DOMAIN sheet :
             /\ sheet[i].kind # "nan"
             /\ \A k \in i + 1..Len(sheet) : sheet[k].kind = "nan"

TrimTrailingEmpty(sheet) == SubSeq(sheet, 1, LastRowWithData(sheet))

\* The parse of the rows handed over: row h names the column, the rows below
\* it are the data. No rows give an empty frame; a header row beyond the
\* last of the rows raises ValueError ("Passed header=[1], len of 1, but
\* only 1 lines in file").
ParseRows(rows, h) ==
    IF Len(rows) = 0 THEN Frame({}, <<>>)
    ELSE IF Len(rows) <= h THEN HeaderBeyondRows
    ELSE Frame({rows[h + 1]},
               [i \in 1..Len(rows) - h - 1 |-> ReadCell(rows[h + 1 + i])])

\* pd.read_excel(excel_file, header=h)
ReadExcel(sheet, h) == ParseRows(TrimTrailingEmpty(sheet), h)

\* Series.dropna()
IsNotNan(c) == c.kind # "nan"
DropNa(data) == SelectSeq(data, IsNotNan)

\* int(x) of a number cell: truncation
AsInt(c) == c.num \div 2

\* what a call returns or raises, with the header rows its parses used
ExtractOk(ids, parses) ==
    [kind |-> "ok", ids |-> ids, duplicates |-> {}, parses |-> parses]
ExtractError(kind, dups, parses) ==
    [kind |-> kind, ids |-> <<>>, duplicates |-> dups, parses |-> parses]
NoExtract == [kind |-> "none", ids |-> <<>>, duplicates |-> {}, parses |-> <<>>]

\* a mutant of DuplicateIds: every value of the list is reported
DuplicateIdsAll(ids) == Range(ids)

\* [id for id in set(eyf_ids) if eyf_ids.count(id) > 1]
DuplicateIds(ids) == {id \in Range(ids) : Count(ids, id) > 1}

\* the header arguments of the calls of pd.read_excel, in call order: row 0,
\* and row 1 if the column is not among the columns of the first parse
HeaderRowsRead(sheet) ==
    IF column_name \notin ReadExcel(sheet, 0).columns THEN <<0, 1>> ELSE <<0>>

\* .astype(int).astype(str).tolist(): int() of a text cell raises ValueError
Coerce(values) ==
    [failed |-> \E i \in DOMAIN values : values[i].kind = "str",
     ids |-> [i \in DOMAIN values |-> Str(AsInt(values[i]))]]

\* lines 30-37 on the column of the frame: dropna, coercion, duplicate check
ExtractColumn(data, parses) ==
    LET coerced == Coerce(DropNa(data))
    IN  IF coerced.failed
        THEN ExtractError("NotAnInteger", {}, parses)
        ELSE IF DuplicateIds(coerced.ids) # {}
        THEN ExtractError("Duplicate", DuplicateIds(coerced.ids), parses)
        ELSE ExtractOk(coerced.ids, parses)

\* lines 26-37 on the frame of the last parse
ExtractFrame(raised, columns, data, parses) ==
    IF raised THEN ExtractError("HeaderBeyondRows", {}, parses)
    ELSE IF column_name \notin columns
    THEN ExtractError("ColumnNotFound", {}, parses)
    ELSE ExtractColumn(data, parses)

\* df after lines 19-24: the frame of the last parse
LastParse(sheet) ==
    ReadExcel(sheet, HeaderRowsRead(sheet)[Len(HeaderRowsRead(sheet))])

read_eyf_ids_from_excel(sheet) ==
    ExtractFrame(LastParse(sheet).raised, LastParse(sheet).columns,
                 LastParse(sheet).data, HeaderRowsRead(sheet))

----------------------------------------------------------------------------
(* PDF bytes, as the decoder sees them *)

\* What pypdf makes of the bytes of one file: the pages it holds, and the
\* exception, if any, that reading them raises. appended is the number of
\* pages that writer.add_page has taken when the exception is raised: 0 when
\* PdfReader(...) raises, more when a later page cannot be read.
GoodPdf(pages) == [pages |-> pages, error |-> "none", appended |-> Len(pages)]
BadPdf(pages, error, appended) ==
    [pages |-> pages, error |-> error, appended |-> appended]

OnePage == GoodPdf(<<"p">>)
TwoPages == GoodPdf(<<"p", "q">>)
ZeroPages == GoodPdf(<<>>)
NotAPdf == BadPdf(<<>>, "PdfReadError", 0)
Unreadable == BadPdf(<<>>, "Exception", 0)
BrokenSecondPage == BadPdf(<<"r", "s">>, "PdfReadError", 1)

PdfBytes == {OnePage, TwoPages, ZeroPages, NotAPdf, Unreadable, BrokenSecondPage}

----------------------------------------------------------------------------
(* Matching: match_uploaded_pdfs_to_eyf_ids *)

\* the file names of the model
Name_1_a == <<"1", "_", "a">>
Name_1_b == <<"1", "_", "b">>
Name_12_a == <<"1", "2", "_", "a">>
Name_2_a == <<"2", "_", "a">>

FileNames == {Name_1_a, Name_1_b, Name_12_a, Name_2_a,
              <<"1">>, <<"x", "1", "_", "a">>}

\* the identifiers of the model: "1", "2" and "12"
IdStrings == {Str(n) : n \in {1, 2, 12}}

File(name, data) == [name |-> name, data |-> data]

\* a dict {filename: bytes_data}: its items in insertion order, the names
\* distinct
IsDict(files) == \A i, j \in DOMAIN files : files[i].name = files[j].name => i = j

\* a mutant of FilePrefix: the '_' is left out of the prefix
FilePrefixNoUnderscore(eyf_id) == eyf_id

\* f"{eyf_id}_"
FilePrefix(eyf_id) == eyf_id \o <<"_">>

\* [(fname, data) for fname, data in uploaded_files.items()
\*     if fname.startswith(f"{eyf_id}_")]
MatchingFiles(uploaded_files, eyf_id) ==
    SelectSeq(uploaded_files, LAMBDA f : StartsWith(f.name, FilePrefix(eyf_id)))

MatchedEntry(eyf_id, f) == [eyf_id |-> eyf_id, fname |-> f.name, data |-> f.data]
DuplicateEntry(eyf_id, matching_files) ==
    [eyf_id |-> eyf_id,
     files |-> [i \in DOMAIN matching_files |-> matching_files[i].name]]

\* a mutant of Bucket: an identifier with several files is also matched to
\* the first of them
BucketDuplicateAlsoMatched(results, eyf_id, matching_files) ==
    IF Len(matching_files) = 0
    THEN [results EXCEPT !.missing = Append(@, eyf_id)]
    ELSE IF Len(matching_files) > 1
    THEN [results EXCEPT
              !.duplicates = Append(@, DuplicateEntry(eyf_id, matching_files)),
              !.matched = Append(@, MatchedEntry(eyf_id, matching_files[1]))]
    ELSE [results EXCEPT !.matched = Append(@, MatchedEntry(eyf_id, matching_files[1]))]

\* a mutant of Bucket: two files still count as a match, three as a conflict
BucketTwoIsMatched(results, eyf_id, matching_files) ==
    IF Len(matching_files) = 0
    THEN [results EXCEPT !.missing = Append(@, eyf_id)]
    ELSE IF Len(matching_files) > 2
    THEN [results EXCEPT
              !.duplicates = Append(@, DuplicateEntry(eyf_id, matching_files))]
    ELSE [results EXCEPT !.matched = Append(@, MatchedEntry(eyf_id, matching_files[1]))]

\* a mutant of Bucket: an entry is put at the front of its bucket
BucketPrepends(results, eyf_id, matching_files) ==
    IF Len(matching_files) = 0
    THEN [results EXCEPT !.missing = <<eyf_id>> \o @]
    ELSE IF Len(matching_files) > 1
    THEN [results EXCEPT
              !.duplicates = <<DuplicateEntry(eyf_id, matching_files)>> \o @]
    ELSE [results EXCEPT !.matched = <<MatchedEntry(eyf_id, matching_files[1])>> \o @]

\* the body of the loop: the if / elif / else on len(matching_files)
Bucket(results, eyf_id, matching_files) ==
    IF Len(matching_files) = 0
    THEN [results EXCEPT !.missing = Append(@, eyf_id)]
    ELSE IF Len(matching_files) > 1
    THEN [results EXCEPT
              !.duplicates = Append(@, DuplicateEntry(eyf_id, matching_files))]
    ELSE [results EXCEPT !.matched = Append(@, MatchedEntry(eyf_id, matching_files[1]))]

RECURSIVE MatchLoop(_, _, _)
\* for eyf_id in eyf_ids: ...
MatchLoop(uploaded_files, ids, results) ==
    IF ids = <<>> THEN results
    ELSE MatchLoop(uploaded_files, Tail(ids),
                   Bucket(results, Head(ids), MatchingFiles(uploaded_files, Head(ids))))

match_uploaded_pdfs_to_eyf_ids(uploaded_files, ids) ==
    MatchLoop(uploaded_files, ids,
              [none |-> FALSE, matched |-> <<>>, missing |-> <<>>, duplicates |-> <<>>])

----------------------------------------------------------------------------
(* Assembly: merge_pdfs_in_memory *)

\* an element of pdf_items: (eyf_id, filename, pdf_bytes)
Item(eyf_id, filename, pdf_bytes) ==
    [eyf_id |-> eyf_id, filename |-> filename, pdf_bytes |-> pdf_bytes]

\* a mutant of NewMergeState: a call goes on from the writer, the count and
\* the error list the call before it left
MergeStateLeftOver == merge_state

\* writer = PdfWriter(); successful = 0; errors = []
\* A page of the writer records the item and the page of the item it was
\* added from, and what the page shows.
NewMergeState == [writer |-> <<>>, successful |-> 0, errors |-> <<>>]

\* the pages of item k that writer.add_page has taken when the try block
\* of the item is left
AddedPages(k, pdf) ==
    [j \in 1..pdf.appended |-> [item |-> k, no |-> j, content |-> pdf.pages[j]]]

ErrorEntry(filename, message) == [filename |-> filename, message |-> message]

\* a mutant of MergeItem: the pages of an item are put in front of the
\* pages the writer holds
MergeItemPrepends(st, k, item) ==
    LET pdf == item.pdf_bytes
    IN  IF pdf.error = "none"
        THEN [st EXCEPT !.writer = AddedPages(k, pdf) \o @, !.successful = @ + 1]
        ELSE IF pdf.error = "PdfReadError"
        THEN [st EXCEPT !.writer = AddedPages(k, pdf) \o @,
                        !.errors = Append(@, ErrorEntry(item.filename,
                                              "Invalid or corrupted PDF file"))]
        ELSE [st EXCEPT !.writer = AddedPages(k, pdf) \o @,
                        !.errors = Append(@, ErrorEntry(item.filename, "str(e)"))]

\* a mutant of MergeItem: an exception other than PdfReadError is swallowed
MergeItemSwallowsOther(st, k, item) ==
    LET pdf == item.pdf_bytes
    IN  IF pdf.error = "none"
        THEN [st EXCEPT !.writer = @ \o AddedPages(k, pdf), !.successful = @ + 1]
        ELSE IF pdf.error = "PdfReadError"
        THEN [st EXCEPT !.writer = @ \o AddedPages(k, pdf),
                        !.errors = Append(@, ErrorEntry(item.filename,
                                              "Invalid or corrupted PDF file"))]
        ELSE [st EXCEPT !.writer = @ \o AddedPages(k, pdf)]

\* a mutant of MergeItem: a failing item is counted as well
MergeItemCountsFailed(st, k, item) ==
    LET pdf == item.pdf_bytes
    IN  IF pdf.error = "none"
        THEN [st EXCEPT !.writer = @ \o AddedPages(k, pdf), !.successful = @ + 1]
        ELSE [st EXCEPT !.writer = @ \o AddedPages(k, pdf),
                        !.successful = @ + 1,
                        !.errors = Append(@, ErrorEntry(item.filename, "str(e)"))]

\* the body of the loop for item k: the try block and its two handlers
MergeItem(st, k, item) ==
    LET pdf == item.pdf_bytes
    IN  IF pdf.error = "none"
        THEN [st EXCEPT !.writer = @ \o AddedPages(k, pdf), !.successful = @ + 1]
        ELSE IF pdf.error = "PdfReadError"
        THEN [st EXCEPT !.writer = @ \o AddedPages(k, pdf),
                        !.errors = Append(@, ErrorEntry(item.filename,
                                              "Invalid or corrupted PDF file"))]
        ELSE [st EXCEPT !.writer = @ \o AddedPages(k, pdf),
                        !.errors = Append(@, ErrorEntry(item.filename, "str(e)"))]

RECURSIVE MergeLoop(_, _, _)
\* for eyf_id, filename, pdf_bytes in pdf_items: ... from item k on
MergeLoop(items, k, st) ==
    IF k > Len(items) THEN st
    ELSE MergeLoop(items, k + 1, MergeItem(st, k, items[k]))

\* writer.write(output); output.getvalue(): what the pages show, in order
WriterBytes(writer) == [i \in DOMAIN writer |-> writer[i].content]

ReturnNone(errors) == [called |-> TRUE, none |-> TRUE, pages |-> <<>>, errors |-> errors]
ReturnBytes(pages, errors) ==
    [called |-> TRUE, none |-> FALSE, pages |-> pages, errors |-> errors]

\* a mutant of MergeReturn: None is returned when the writer holds no page
MergeReturnNoneWhenNoPage(st) ==
    IF st.writer = <<>> THEN ReturnNone(st.errors)
    ELSE ReturnBytes(WriterBytes(st.writer), st.errors)

\* if successful == 0: return None, errors
\* ... return output.getvalue(), errors
MergeReturn(st) ==
    IF st.successful = 0 THEN ReturnNone(st.errors)
    ELSE ReturnBytes(WriterBytes(st.writer), st.errors)

merge_pdfs_in_memory(items) == MergeReturn(MergeLoop(items, 1, NewMergeState))

----------------------------------------------------------------------------
(* Files on disk: merge_pdfs of src/pdf_merger.py; the copy of it in
   src/generate_pdf_request.py has the same body and overwrite=True as its
   default *)

\* an entry of a folder: a file with its bytes, or a directory
FileEntry(name, data) == [name |-> name, kind |-> "file", data |-> data]
DirEntry(name) == [name |-> name, kind |-> "dir", data |-> NotAPdf]

\* the output path: nothing there, or a file with its bytes
OutputAbsent == [exists |-> FALSE, data |-> NotAPdf]
OutputFile(data) == [exists |-> TRUE, data |-> data]

\* What the bytes of a document are when the write stopped before its end:
\* a file, possibly empty, that is no document.
CutShort == BadPdf(<<>>, "PdfStreamError", 0)

\* What goes wrong when the output is written: nothing; "open" when
\* open(output_file_name, 'wb') raises (a path in a directory that does not
\* exist or that may not be written); "write" when the file is opened, and
\* so created or emptied, and writer.write raises before the document is
\* written in full (no space left on the device).
OutputFaults == {"none", "open", "write"}

\* The disk: whether the folder exists, its entries in the order the
\* directory is listed, the output path, and what goes wrong when the
\* output is written.
Disk(folder_exists, entries, output, fault) ==
    [folder_exists |-> folder_exists, entries |-> entries,
     output |-> output, fault |-> fault]

\* os.path.isfile(pdf_path)
IsFile(d, path) ==
    \E i \in DOMAIN d.entries : d.entries[i].name = path /\ d.entries[i].kind = "file"

\* the bytes PdfReader(pdf_path) reads
BytesAt(d, path) ==
    d.entries[CHOOSE i \in DOMAIN d.entries :
                  d.entries[i].name = path /\ d.entries[i].kind = "file"].data

\* a mutant of OverwriteGuard: an existing output never stops the merge
OverwriteGuardNever(d, overwrite) == FALSE

\* os.path.exists(output_file_name) and not overwrite
OverwriteGuard(d, overwrite) == d.output.exists /\ ~overwrite

\* writer = PdfWriter(); successful_merges = 0; log is what is printed
NewFileMerge == [writer |-> <<>>, successful_merges |-> 0, log |-> <<>>]

\* the body of the loop for the k-th path: the try block and its handlers
AppendFile(st, k, d, path) ==
    IF ~IsFile(d, path)
    THEN [st EXCEPT !.log = Append(@, "SKIPPED File not found")]
    ELSE LET pdf == BytesAt(d, path)
             taken == [st EXCEPT !.writer = @ \o AddedPages(k, pdf)]
         IN  IF pdf.error = "none"
             THEN [taken EXCEPT !.successful_merges = @ + 1,
                                !.log = Append(@, "SUCCESS")]
             ELSE IF pdf.error = "PdfReadError"
             THEN [taken EXCEPT !.log = Append(@, "SKIPPED Invalid or corrupted")]
             ELSE [taken EXCEPT !.log = Append(@, "ERROR Failed to append")]

RECURSIVE AppendFiles(_, _, _, _)
\* for pdf_path in pdf_files: ...
AppendFiles(st, k, d, pdf_files) ==
    IF k > Len(pdf_files) THEN st
    ELSE AppendFiles(AppendFile(st, k, d, pdf_files[k]), k + 1, d, pdf_files)

\* a mutant of WriteOutput: the writer is written whatever the count
WriteOutputAlways(st, d) ==
    [disk |-> [d EXCEPT !.output = OutputFile(GoodPdf(WriterBytes(st.writer)))],
     log |-> Append(st.log, "Successfully merged")]

\* if successful_merges > 0: try: open(...), writer.write(...)
\* except Exception: ... else: "No valid PDF files ..."
WriteOutput(st, d) ==
    IF st.successful_merges > 0
    THEN IF d.fault = "open"
         THEN [disk |-> d, log |-> Append(st.log, "CRITICAL ERROR Failed to write")]
         ELSE IF d.fault = "write"
         THEN [disk |-> [d EXCEPT !.output = OutputFile(CutShort)],
               log |-> Append(st.log, "CRITICAL ERROR Failed to write")]
         ELSE [disk |-> [d EXCEPT !.output = OutputFile(GoodPdf(WriterBytes(st.writer)))],
               log |-> Append(st.log, "Successfully merged")]
    ELSE [disk |-> d, log |-> Append(st.log, "No valid PDF files")]

\* the record of a call that has returned
Returned(call, r) ==
    [call EXCEPT !.returned = TRUE, !.skipped = r.skipped, !.writer = r.writer,
                 !.successful_merges = r.successful_merges, !.log = r.log]

\* what a call of merge_pdfs leaves: the disk, whether the guard returned
\* early, the writer and the count when the loop has ended, the lines printed
merge_pdfs(d, pdf_files, overwrite) ==
    IF OverwriteGuard(d, overwrite)
    THEN [disk |-> d, skipped |-> TRUE, writer |-> <<>>, successful_merges |-> 0,
          log |-> <<"Output file already exists">>]
    ELSE LET st == AppendFiles(NewFileMerge, 1, d, pdf_files)
             written == WriteOutput(st, d)
         IN  [disk |-> written.disk, skipped |-> FALSE, writer |-> st.writer,
              successful_merges |-> st.successful_merges, log |-> written.log]

----------------------------------------------------------------------------
(* The command line: main() of src/generate_pdf_request.py *)

\* len(sys.argv) of a well-formed call: the script and three arguments
UsageArgc == 4

UpperLetters == <<"A", "B", "C", "D", "E", "F", "G", "H", "I", "J", "K", "L", "M", "N",
                  "O", "P", "Q", "R", "S", "T", "U", "V", "W", "X", "Y", "Z">>
LowerLetters == <<"a", "b", "c", "d", "e", "f", "g", "h", "i", "j", "k", "l", "m", "n",
                  "o", "p", "q", "r", "s", "t", "u", "v", "w", "x", "y", "z">>

\* the characters of the class [A-Za-z ]
NameChars == Range(UpperLetters) \cup Range(LowerLetters) \cup {" "}

\* "_KCS Records Consent_" and ".pdf"
ConsentInfix ==
    <<"_", "K", "C", "S", " ", "R", "e", "c", "o", "r", "d", "s", " ", 
      "C", "o", "n", "s", "e", "n", "t", "_">>
PdfSuffix == <<".", "p", "d", "f">>

\* s.endswith(p)
EndsWith(s, p) ==
    /\ Len(p) <= Len(s)
    /\ \A i \in 1..Len(p) : s[Len(s) - Len(p) + i] = p[i]

\* pattern.match(filename) for
\* r"^[0-9]+_[A-Za-z ]+_KCS Records Consent_.*\.pdf$": i is the last digit
\* of the identifier, j the last character of the client name; the names of
\* the model hold no line break
MatchesPattern(filename) ==
    \E i, j \in 1..Len(filename) :
        /\ \A k \in 1..i : filename[k] \in Range(DigitChars)
        /\ i < Len(filename)
        /\ filename[i + 1] = "_"
        /\ j >= i + 2
        /\ \A k \in (i + 2)..j : filename[k] \in NameChars
        /\ j + Len(ConsentInfix) + Len(PdfSuffix) <= Len(filename)
        /\ SubSeq(filename, j + 1, j + Len(ConsentInfix)) = ConsentInfix
        /\ EndsWith(filename, PdfSuffix)

\* what a function returns or raises
Returns(value) == [raised |-> FALSE, value |-> value]
Raises == [raised |-> TRUE, value |-> <<>>]

\* validate_file_formats(folder_path, regex_pattern): the names of the
\* files (not of the directories) that match and that do not match
validate_file_formats(d) ==
    IF ~d.folder_exists THEN Raises
    ELSE LET files == SelectSeq(d.entries, LAMBDA e : e.kind = "file")
             valid == SelectSeq(files, LAMBDA e : MatchesPattern(e.name))
             invalid == SelectSeq(files, LAMBDA e : ~MatchesPattern(e.name))
         IN  Returns([valid_files |-> [i \in DOMAIN valid |-> valid[i].name],
                      invalid_files |-> [i \in DOMAIN invalid |-> invalid[i].name]])

\* a name matches the glob pattern f"{eyf_id}_*.pdf"
GlobMatches(name, eyf_id) ==
    /\ StartsWith(name, eyf_id \o <<"_">>)
    /\ EndsWith(name, PdfSuffix)
    /\ Len(name) >= Len(eyf_id) + 1 + Len(PdfSuffix)

\* list(folder.glob(f"{eyf_id}_*.pdf")): the entries, files and directories
\* alike, that match, in the order the directory is listed
Glob(d, eyf_id) ==
    LET found == SelectSeq(d.entries, LAMBDA e : GlobMatches(e.name, eyf_id))
    IN  [i \in DOMAIN found |-> found[i].name]

\* get_files_for_eyf_ids(folder_path, eyf_ids)
get_files_for_eyf_ids(d, ids) ==
    IF ~d.folder_exists THEN Raises
    ELSE Returns([i \in DOMAIN ids |->
                     [eyf_id |-> ids[i], filepaths |-> Glob(d, ids[i])]])

\* process_waiver_matches(eyf_ids_with_filepaths): filepaths[0] of every
\* identifier with exactly one path
process_waiver_matches(eyf_ids_with_filepaths) ==
    LET one == SelectSeq(eyf_ids_with_filepaths, LAMBDA m : Len(m.filepaths) = 1)
    IN  [i \in DOMAIN one |-> one[i].filepaths[1]]

\* the white space of the answers of the model
WhiteSpace == {" "}

RECURSIVE Strip(_)
\* str.strip()
Strip(text) ==
    IF text = <<>> THEN text
    ELSE IF Head(text) \in WhiteSpace THEN Strip(Tail(text))
    ELSE IF text[Len(text)] \in WhiteSpace THEN Strip(SubSeq(text, 1, Len(text) - 1))
    ELSE text

\* str.lower(), character by character
Lower(text) ==
    [i \in DOMAIN text |->
        IF \E k \in DOMAIN UpperLetters : UpperLetters[k] = text[i]
        THEN LowerLetters[CHOOSE k \in DOMAIN UpperLetters : UpperLetters[k] = text[i]]
        ELSE text[i]]

\* a mutant of Confirmed: every answer but 'n' confirms
ConfirmedUnlessNo(text) == Lower(Strip(text)) # <<"n">>

\* user_input == 'y' for user_input = input(...).strip().lower()
Confirmed(text) == Lower(Strip(text)) = <<"y">>

\* a run that has ended with exit code code after printing line
Exited(c, line, code) ==
    [c EXCEPT !.pc = "exited", !.exit_code = code, !.printed = Append(@, line)]

\* a mutant of MainToPrompt: names that do not match are reported and the
\* run goes on
MainToPromptGoesOn(c, d) ==
    IF c.argc # UsageArgc THEN Exited(c, "Usage", 1)
    ELSE LET read == IF c.excel.none THEN ExtractError("FileNotFound", {}, <<>>)
                     ELSE read_eyf_ids_from_excel(c.excel.sheet)
             checked == validate_file_formats(d)
             found == get_files_for_eyf_ids(d, read.ids)
         IN  IF read.kind # "ok" THEN Exited(c, "Traceback", 1)
             ELSE IF checked.raised THEN Exited(c, "Unexpected Error", 0)
             ELSE [c EXCEPT !.pc = "prompt",
                            !.eyf_ids = read.ids,
                            !.matches = found.value,
                            !.pdfs_to_combine = process_waiver_matches(found.value),
                            !.printed = Append(@, "Successfully 1:1 matched")]

\* main() from its first line to the call of input(): the usage check, the
\* extraction (outside the try block: its exception ends the run with a
\* traceback and exit code 1), the validation of the names, the matching
\* and the summary. sys.exit raises SystemExit, which except Exception does
\* not catch; a ValueError of validate_file_formats is caught, and the run
\* ends with exit code 0.
MainToPrompt(c, d) ==
    IF c.argc # UsageArgc THEN Exited(c, "Usage", 1)
    ELSE LET read == IF c.excel.none THEN ExtractError("FileNotFound", {}, <<>>)
                     ELSE read_eyf_ids_from_excel(c.excel.sheet)
             checked == validate_file_formats(d)
             found == get_files_for_eyf_ids(d, read.ids)
         IN  IF read.kind # "ok" THEN Exited(c, "Traceback", 1)
             ELSE IF checked.raised THEN Exited(c, "Unexpected Error", 0)
             ELSE IF checked.value.invalid_files # <<>>
             THEN Exited(c, "ERROR: Some files do not match the expected format", 1)
             ELSE [c EXCEPT !.pc = "prompt",
                            !.eyf_ids = read.ids,
                            !.matches = found.value,
                            !.pdfs_to_combine = process_waiver_matches(found.value),
                            !.printed = Append(@, "Successfully 1:1 matched")]

\* main() from the return of input() to its end: answer is what the user
\* typed, or the end of the input (EOFError, which except Exception
\* catches). The result is the run, the disk and the call of merge_pdfs.
MainFromPrompt(c, d, call, answer) ==
    LET answered == [c EXCEPT !.answer = answer]
    IN  IF answer.eof
        THEN [cli |-> Exited(answered, "Unexpected Error", 0), disk |-> d, call |-> call]
        ELSE IF ~Confirmed(answer.text)
        THEN [cli |-> Exited(answered, "Operation cancelled.", 0), disk |-> d, call |-> call]
        ELSE LET r == merge_pdfs(d, c.pdfs_to_combine, TRUE)
             IN  [cli |-> [answered EXCEPT !.pc = "exited", !.exit_code = 0,
                                           !.merged = TRUE],
                  disk |-> r.disk,
                  call |-> Returned([call EXCEPT !.pdf_files = c.pdfs_to_combine,
                                                 !.overwrite = TRUE], r)]

----------------------------------------------------------------------------
(* The status report: generate_missing_report *)

\* A line of the report: what kind of line it is, the number it shows and
\* the identifier or file name it shows. The generation time of the second
\* line is not part of the model.
Line(tag, n, text) == [tag |-> tag, n |-> n, text |-> text]
Plain(tag) == Line(tag, 0, <<>>)

\* the three lines every report starts with, and the empty line after them
ReportHead ==
    <<Plain("FERPA Waiver Status Report"), Plain("Generated"), Plain("rule"),
      Plain("empty")>>

\* a mutant of MissingSection: the header is printed for an empty list too
MissingSectionAlways(missing_ids) ==
    <<Line("MISSING WAIVERS", Len(missing_ids), <<>>), Plain("rule")>>
        \o [i \in DOMAIN missing_ids |-> Line("EYF ID", 0, missing_ids[i])]
        \o <<Plain("empty")>>

\* if missing_ids: header with len(missing_ids), rule, one line per
\* identifier, empty line
MissingSection(missing_ids) ==
    IF missing_ids = <<>> THEN <<>>
    ELSE <<Line("MISSING WAIVERS", Len(missing_ids), <<>>), Plain("rule")>>
             \o [i \in DOMAIN missing_ids |-> Line("EYF ID", 0, missing_ids[i])]
             \o <<Plain("empty")>>

\* a mutant of DuplicateLines: only the first conflicting name is listed
DuplicateLinesFirstOnly(entry) ==
    <<Line("EYF ID of files", 0, entry.eyf_id), Line("file", 0, entry.files[1])>>

\* the lines of one (eyf_id, files) pair: the identifier, then a line per
\* file name
DuplicateLines(entry) ==
    <<Line("EYF ID of files", 0, entry.eyf_id)>>
        \o [i \in DOMAIN entry.files |-> Line("file", 0, entry.files[i])]

RECURSIVE AllDuplicateLines(_)
\* for eyf_id, files in duplicates: ...
AllDuplicateLines(duplicates) ==
    IF duplicates = <<>> THEN <<>>
    ELSE DuplicateLines(Head(duplicates)) \o AllDuplicateLines(Tail(duplicates))

\* if duplicates: header with len(duplicates), rule, the lines of the
\* pairs, empty line
DuplicatesSection(duplicates) ==
    IF duplicates = <<>> THEN <<>>
    ELSE <<Line("DUPLICATE FILES", Len(duplicates), <<>>), Plain("rule")>>
             \o AllDuplicateLines(duplicates)
             \o <<Plain("empty")>>

\* if not missing_ids and not duplicates: the affirmative line
AllMatchedLine(missing_ids, duplicates) ==
    IF missing_ids = <<>> /\ duplicates = <<>>
    THEN <<Plain("All students have exactly one waiver on file.")>>
    ELSE <<>>

\* the report, line by line
generate_missing_report(missing_ids, duplicates) ==
    ReportHead \o MissingSection(missing_ids) \o DuplicatesSection(duplicates)
        \o AllMatchedLine(missing_ids, duplicates)

----------------------------------------------------------------------------
(* Values of the variables a specification does not use *)

NoResults == [none |-> TRUE, matched |-> <<>>, missing |-> <<>>, duplicates |-> <<>>]
NoMergeState == [writer |-> <<>>, successful |-> 0, errors |-> <<>>]
NoReturn == [called |-> FALSE, none |-> TRUE, pages |-> <<>>, errors |-> <<>>]
NoPdf == [none |-> TRUE, pages |-> <<>>]
NoFile == [none |-> TRUE, sheet |-> <<>>]
NoWidgets == [excel |-> NoFile, pdfs |-> <<>>]
NoDisk == Disk(FALSE, <<>>, OutputAbsent, "none")
NoCall == [pdf_files |-> <<>>, overwrite |-> FALSE, returned |-> FALSE,
           skipped |-> FALSE, writer |-> <<>>, successful_merges |-> 0, log |-> <<>>]
NoCli == [pc |-> "none", argc |-> 0, excel |-> [none |-> TRUE, sheet |-> <<>>],
          answer |-> [eof |-> FALSE, text |-> <<>>], exit_code |-> -1, printed |-> <<>>,
          eyf_ids |-> <<>>, matches |-> <<>>, pdfs_to_combine |-> <<>>,
          merged |-> FALSE]
NoReport == [called |-> FALSE, missing_ids |-> <<>>, duplicates |-> <<>>, lines |-> <<>>]
NoUi == [excel_msg |-> "none", step3 |-> "none", step4 |-> "none",
         generate_button |-> FALSE, merge_msg |-> "none", skipped |-> 0,
         download_merged |-> FALSE, report |-> "none"]

----------------------------------------------------------------------------
(* Specification of the extractor alone: any sheet, one call *)

InitExtract ==
    /\ pc = "ready"
    /\ excel_file \in Sheets
    /\ extract_result = NoExtract
    /\ eyf_ids = <<>>
    /\ uploaded_pdfs = <<>>
    /\ match_results = NoResults
    /\ pdf_items = <<>>
    /\ merge_state = NoMergeState
    /\ merge_return = NoReturn
    /\ merged_pdf = NoPdf
    /\ widgets = NoWidgets
    /\ ui = NoUi
    /\ report = NoReport
    /\ disk = NoDisk
    /\ merge_call = NoCall
    /\ cli = NoCli
    /\ merge_pos = 0
    /\ stopped_runs = 0

CallExtract ==
    /\ pc = "ready"
    /\ pc' = "done"
    /\ extract_result' = read_eyf_ids_from_excel(excel_file)
    /\ UNCHANGED <<excel_file, eyf_ids, uploaded_pdfs, match_results, pdf_items,
                   merge_state, merge_return, merged_pdf, widgets, ui,
                   disk, merge_call, cli, report, merge_pos, stopped_runs>>

NextExtract == CallExtract

SpecExtract == InitExtract /\ [][NextExtract]_vars

----------------------------------------------------------------------------
(* Specification of the matcher alone: any identifier list without repeats,
   any dict of files, one call *)

\* the dicts of files given to the matcher, each file a page or no PDF
MatchPools ==
    {files \in SeqsUpTo({File(n, d) : n \in FileNames, d \in {OnePage, NotAPdf}}, MaxPool) :
        IsDict(files)}

InitMatch ==
    /\ pc = "ready"
    /\ eyf_ids \in DistinctSeqsUpTo(IdStrings, MaxIds)
    /\ uploaded_pdfs \in MatchPools
    /\ match_results = NoResults
    /\ excel_file = <<>>
    /\ extract_result = NoExtract
    /\ pdf_items = <<>>
    /\ merge_state = NoMergeState
    /\ merge_return = NoReturn
    /\ merged_pdf = NoPdf
    /\ widgets = NoWidgets
    /\ ui = NoUi
    /\ report = NoReport
    /\ disk = NoDisk
    /\ merge_call = NoCall
    /\ cli = NoCli
    /\ merge_pos = 0
    /\ stopped_runs = 0

CallMatch ==
    /\ pc = "ready"
    /\ pc' = "done"
    /\ match_results' = match_uploaded_pdfs_to_eyf_ids(uploaded_pdfs, eyf_ids)
    /\ UNCHANGED <<excel_file, extract_result, eyf_ids, uploaded_pdfs, pdf_items,
                   merge_state, merge_return, merged_pdf, widgets, ui,
                   disk, merge_call, cli, report, merge_pos, stopped_runs>>

NextMatch == CallMatch

SpecMatch == InitMatch /\ [][NextMatch]_vars

----------------------------------------------------------------------------
(* Specification of the assembler alone: any list of items, one call *)

MergeItems == {Item(Str(1), n, b) : n \in {Name_1_a, Name_1_b}, b \in PdfBytes}

InitMerge ==
    /\ pc = "ready"
    /\ pdf_items \in SeqsUpTo(MergeItems, MaxItems)
    /\ merge_state = NoMergeState
    /\ merge_return = NoReturn
    /\ excel_file = <<>>
    /\ extract_result = NoExtract
    /\ eyf_ids = <<>>
    /\ uploaded_pdfs = <<>>
    /\ match_results = NoResults
    /\ merged_pdf = NoPdf
    /\ widgets = NoWidgets
    /\ ui = NoUi
    /\ report = NoReport
    /\ disk = NoDisk
    /\ merge_call = NoCall
    /\ cli = NoCli
    /\ merge_pos = 0
    /\ stopped_runs = 0

CallMerge ==
    /\ pc = "ready"
    /\ pc' = "done"
    /\ merge_state' = MergeLoop(pdf_items, 1, NewMergeState)
    /\ merge_return' = merge_pdfs_in_memory(pdf_items)
    /\ UNCHANGED <<excel_file, extract_result, eyf_ids, uploaded_pdfs, match_results,
                   pdf_items, merged_pdf, widgets, ui,
                   disk, merge_call, cli, report, merge_pos, stopped_runs>>

NextMerge == CallMerge

SpecMerge == InitMerge /\ [][NextMerge]_vars

----------------------------------------------------------------------------
(* Two calls of merge_pdfs_in_memory on one list, statement by statement:
   pc is "ready", "first" while the first call runs, "done" when it has
   returned, "second" while the second call runs, "again" when that has
   returned. merge_state holds the locals of the call that runs or ran
   last, merge_pos the item its loop comes to next. *)

\* writer = PdfWriter(); successful = 0; errors = []
BeginMerge ==
    /\ pc \in {"ready", "done"}
    /\ pc' = IF pc = "ready" THEN "first" ELSE "second"
    /\ merge_state' = NewMergeState
    /\ merge_pos' = 1
    /\ UNCHANGED <<excel_file, extract_result, eyf_ids, uploaded_pdfs, match_results,
                   pdf_items, merge_return, merged_pdf, widgets, ui,
                   disk, merge_call, cli, report, stopped_runs>>

\* one turn of the loop: the try block and its handlers for the next item
MergeNextItem ==
    /\ pc \in {"first", "second"}
    /\ merge_pos <= Len(pdf_items)
    /\ merge_state' = MergeItem(merge_state, merge_pos, pdf_items[merge_pos])
    /\ merge_pos' = merge_pos + 1
    /\ UNCHANGED <<pc, excel_file, extract_result, eyf_ids, uploaded_pdfs,
                   match_results, pdf_items, merge_return, merged_pdf, widgets, ui,
                   disk, merge_call, cli, report, stopped_runs>>

\* if successful == 0: return None, errors ... return output.getvalue(), errors
EndMerge ==
    /\ pc \in {"first", "second"}
    /\ merge_pos > Len(pdf_items)
    /\ pc' = IF pc = "first" THEN "done" ELSE "again"
    /\ merge_return' = MergeReturn(merge_state)
    /\ UNCHANGED <<excel_file, extract_result, eyf_ids, uploaded_pdfs, match_results,
                   pdf_items, merge_state, merged_pdf, widgets, ui,
                   disk, merge_call, cli, report, merge_pos, stopped_runs>>

NextTwice == BeginMerge \/ MergeNextItem \/ EndMerge

SpecTwice == InitMerge /\ [][NextTwice]_vars

----------------------------------------------------------------------------
(* The interactive session: one run of the script of src/app.py *)

UploadedExcel(sheet) == [none |-> FALSE, sheet |-> sheet]

SomePdf(pages) == [none |-> FALSE, pages |-> pages]

\* d[f.name] = f.read(): a name already in the dict keeps its place and
\* takes the new bytes
DictPut(d, f) ==
    IF \E i \in DOMAIN d : d[i].name = f.name
    THEN [i \in DOMAIN d |-> IF d[i].name = f.name THEN f ELSE d[i]]
    ELSE Append(d, f)

RECURSIVE DictOf(_)
\* {f.name: f.read() for f in pdf_files}
DictOf(files) ==
    IF files = <<>> THEN <<>>
    ELSE DictPut(DictOf(SubSeq(files, 1, Len(files) - 1)), files[Len(files)])

\* a mutant of ItemsToMerge: the first file of every conflict is merged too
ItemsToMergeWithConflicts(results) ==
    results.matched \o
        [i \in DOMAIN results.duplicates |->
            [eyf_id |-> results.duplicates[i].eyf_id,
             fname |-> results.duplicates[i].files[1],
             data |-> OnePage]]

\* the argument of the call of merge_pdfs_in_memory in step 4
ItemsToMerge(results) == results.matched

\* the (eyf_id, fname, data) tuples of matched as merge_pdfs_in_memory
\* unpacks them: for eyf_id, filename, pdf_bytes in pdf_items
AsItems(entries) ==
    [i \in DOMAIN entries |->
        Item(entries[i].eyf_id, entries[i].fname, entries[i].data)]

\* what step 4 shows after the call of merge_pdfs_in_memory: st.error when
\* merged_bytes is None, st.warning with the number of skipped files when
\* there are errors, nothing otherwise
MergeMessage(called, ret) ==
    IF ~called THEN "none"
    ELSE IF ret.none THEN "could_not_merge"
    ELSE IF ret.errors # <<>> THEN "merged_with_skipped"
    ELSE "merged"

\* Step 1 of the script: the call of read_eyf_ids_from_excel on the uploaded
\* spreadsheet, if there is one
Step1(w) ==
    IF w.excel.none THEN NoExtract ELSE read_eyf_ids_from_excel(w.excel.sheet)

\* The points at which a run can be stopped, in the order of the script: a
\* new event makes the running script end at the next call of an st.*
\* function or the next access of st.session_state, and what it has written
\* to st.session_state before stays. One point stands for every point up to
\* the next of the list: st.title (138) for the calls and accesses before
\* step 1 has done anything; the assignment of eyf_ids after the read (164);
\* the message of step 1 (165, 167, 170); the assignment of [] to eyf_ids
\* after the error message (168, 171); st.divider (173); the message of
\* step 2 (189, or 191); the first call of step 3 (204, 235-239); the first
\* call of step 4 (241-247, 286, 288); st.spinner (248); the assignment of
\* merged_pdf (253); the message after the merge (255, 259); the read of
\* merged_pdf and the download button (261, 262); the reads of match_results
\* for the report (272-275); the first call of the second column (277,
\* 283); "end" is the run that is not stopped. A point that the path of a
\* run does not come to gives the state of the next point the path has.
CallOrder ==
    <<"title", "set_eyf_ids", "excel_msg", "reset_eyf_ids", "divider", "pdf_msg",
      "step3", "step4", "spinner", "set_merged_pdf", "merge_msg", "download",
      "get_match_results", "report", "end">>

\* the points of the script that come before a point
PointsBefore ==
    [stop \in Range(CallOrder) |->
        {CallOrder[i] : i \in {k \in DOMAIN CallOrder :
                                  \E j \in k + 1..Len(CallOrder) : CallOrder[j] = stop}}]

\* the run stopped at stop has come to the point call and gone on
Passed(stop, call) == call \in PointsBefore[stop]

\* The script from the outcome read of the call of step 1 on, stopped at stop.
ScriptAfterRead(w, clicked, read, stop) ==
    LET \* Step 1: the list is assigned before st.success (164), and after
        \* st.error (168, 171)
        extracted == ~w.excel.none /\ Passed(stop, "title")
        ids == IF extracted /\ read.kind = "ok"
               THEN IF Passed(stop, "set_eyf_ids") THEN read.ids ELSE eyf_ids
               ELSE IF extracted /\ Passed(stop, "reset_eyf_ids") THEN <<>>
               ELSE eyf_ids
        excel_msg == IF ~extracted \/ ~Passed(stop, "excel_msg") THEN "none"
                     ELSE IF read.kind = "ok" THEN "loaded" ELSE "error"
        \* Step 2
        pdfs == IF w.pdfs # <<>> /\ Passed(stop, "divider")
                THEN DictOf(w.pdfs) ELSE uploaded_pdfs
        \* Step 3
        matching == ids # <<>> /\ pdfs # <<>> /\ Passed(stop, "pdf_msg")
        results == IF matching
                   THEN match_uploaded_pdfs_to_eyf_ids(pdfs, ids)
                   ELSE match_results
        step3 == IF ~Passed(stop, "step3") THEN "none"
                 ELSE IF ids # <<>> /\ pdfs # <<>> THEN "results"
                 ELSE IF ids # <<>> THEN "upload_pdfs"
                 ELSE IF pdfs # <<>> THEN "upload_excel"
                 ELSE "upload_both"
        \* Step 4
        downloads == ~results.none /\ results.matched # <<>>
        called == downloads /\ clicked /\ Passed(stop, "spinner")
        items == IF called THEN AsItems(ItemsToMerge(results)) ELSE <<>>
        loop == IF called THEN MergeLoop(items, 1, NewMergeState) ELSE NoMergeState
        ret == IF called THEN MergeReturn(loop) ELSE NoReturn
        merged == IF called /\ ~ret.none /\ Passed(stop, "set_merged_pdf")
                  THEN SomePdf(ret.pages) ELSE merged_pdf
        reporting == /\ downloads /\ Passed(stop, "get_match_results")
                     /\ (results.missing # <<>> \/ results.duplicates # <<>>)
    IN  [extract_result |-> IF extracted THEN read ELSE NoExtract,
         eyf_ids |-> ids,
         uploaded_pdfs |-> pdfs,
         match_results |-> results,
         pdf_items |-> items,
         merge_state |-> loop,
         merge_return |-> ret,
         merged_pdf |-> merged,
         report |-> IF reporting
                    THEN [called |-> TRUE, missing_ids |-> results.missing,
                          duplicates |-> results.duplicates,
                          lines |-> generate_missing_report(results.missing,
                                                            results.duplicates)]
                    ELSE NoReport,
         ui |-> [excel_msg |-> excel_msg,
                 step3 |-> step3,
                 step4 |-> IF ~Passed(stop, "step4") THEN "none"
                           ELSE IF downloads THEN "downloads"
                           ELSE IF ~results.none THEN "no_matching"
                           ELSE "complete_steps",
                 generate_button |-> downloads /\ Passed(stop, "step4"),
                 merge_msg |-> IF Passed(stop, "merge_msg")
                               THEN MergeMessage(called, ret) ELSE "none",
                 skipped |-> IF called /\ ~ret.none /\ Passed(stop, "merge_msg")
                             THEN Len(ret.errors) ELSE 0,
                 download_merged |->
                     downloads /\ ~merged.none /\ Passed(stop, "download"),
                 report |-> IF ~downloads \/ ~Passed(stop, "report") THEN "none"
                            ELSE IF results.missing # <<>> \/ results.duplicates # <<>>
                            THEN "download_report"
                            ELSE "all_matched"]]

\* The script runs from the top with the widgets holding w, to its end or
\* to the point of CallOrder at which the next event stops it. A session
\* has at most MaxStopped stopped runs.
Run(w, clicked) ==
    \E read \in {Step1(w)} :
        \E stop \in {p \in Range(CallOrder) : p = "end" \/ stopped_runs < MaxStopped} :
            \E after \in {ScriptAfterRead(w, clicked, read, stop)} :
                /\ stopped_runs' = IF stop = "end" THEN stopped_runs
                                   ELSE stopped_runs + 1
                /\ widgets' = w
                /\ extract_result' = after.extract_result
                /\ eyf_ids' = after.eyf_ids
                /\ uploaded_pdfs' = after.uploaded_pdfs
                /\ match_results' = after.match_results
                /\ pdf_items' = after.pdf_items
                /\ merge_state' = after.merge_state
                /\ merge_return' = after.merge_return
                /\ merged_pdf' = after.merged_pdf
                /\ ui' = after.ui
                /\ report' = after.report
                /\ UNCHANGED <<pc, excel_file, disk, merge_call, cli, merge_pos>>

\* the spreadsheets a user uploads
E == column_name
AppSheets ==
    { <<E, NumCell(2), NumCell(4)>>,            \* 1 and 2
      <<E, StrCell(NoNumberText)>> }            \* a cell that is no number

AppNames == <<Name_1_a, Name_1_b, Name_2_a>>

\* the PDF files a user has at hand: two waivers of student 1, the first of
\* them a damaged file, and a waiver of student 2
AppFiles == {File(Name_1_a, NotAPdf), File(Name_1_b, OnePage),
             File(Name_2_a, OnePage)}

\* the lists of PDF files a user uploads: distinct names, in the order of
\* AppNames
AppUploads ==
    {fs \in SeqsUpTo(AppFiles, MaxUpload) :
        \A i, j \in DOMAIN fs :
            i < j => \E a, b \in DOMAIN AppNames :
                         a < b /\ fs[i].name = AppNames[a] /\ fs[j].name = AppNames[b]}

\* the state after the first run of the script, nothing uploaded yet
Init ==
    /\ pc = "session"
    /\ excel_file = <<>>
    /\ widgets = NoWidgets
    /\ extract_result = NoExtract
    /\ eyf_ids = <<>>
    /\ uploaded_pdfs = <<>>
    /\ match_results = NoResults
    /\ pdf_items = <<>>
    /\ merge_state = NoMergeState
    /\ merge_return = NoReturn
    /\ merged_pdf = NoPdf
    /\ ui = [NoUi EXCEPT !.step3 = "upload_both", !.step4 = "complete_steps"]
    /\ report = NoReport
    /\ disk = NoDisk
    /\ merge_call = NoCall
    /\ cli = NoCli
    /\ merge_pos = 0
    /\ stopped_runs = 0

\* the user puts a spreadsheet into the first uploader, or another one
ChooseExcel ==
    \E sheet \in AppSheets :
        /\ widgets.excel # UploadedExcel(sheet)
        /\ Run([widgets EXCEPT !.excel = UploadedExcel(sheet)], FALSE)

\* the user removes the spreadsheet from the first uploader
RemoveExcel ==
    /\ ~widgets.excel.none
    /\ Run([widgets EXCEPT !.excel = NoFile], FALSE)

\* the user changes the files of the second uploader
ChoosePdfs ==
    \E fs \in AppUploads :
        /\ widgets.pdfs # fs
        /\ Run([widgets EXCEPT !.pdfs = fs], FALSE)

\* the user presses "Generate Merged PDF", which the last run displayed
ClickGenerate ==
    /\ ui.generate_button
    /\ Run(widgets, TRUE)

\* the user presses a download button: the script runs again, nothing else
\* changed
ClickDownload ==
    /\ ui.download_merged \/ ui.report = "download_report"
    /\ Run(widgets, FALSE)

Next == ChooseExcel \/ RemoveExcel \/ ChoosePdfs \/ ClickGenerate \/ ClickDownload

Spec == Init /\ [][Next]_vars

----------------------------------------------------------------------------
(* Specification of merge_pdfs alone: any list of paths, one call *)

\* the folder of the calls: files that are valid PDFs of one, two and no
\* pages, a file that is no PDF, a file whose reading raises another
\* exception, a PDF whose second page cannot be read, and a directory
FileDiskEntries ==
    << FileEntry(<<"v">>, OnePage), FileEntry(<<"w">>, TwoPages),
       FileEntry(<<"z">>, ZeroPages), FileEntry(<<"i">>, NotAPdf),
       FileEntry(<<"u">>, Unreadable), FileEntry(<<"b">>, BrokenSecondPage),
       DirEntry(<<"d">>) >>

\* the paths handed to merge_pdfs: the entries of the folder and a path
\* with nothing at it
FilePaths == {FileDiskEntries[i].name : i \in DOMAIN FileDiskEntries} \cup {<<"m">>}

\* what is at the output path before the call: nothing, or a file holding
\* the text 'existing content'
ExistingOutputs == {OutputAbsent, OutputFile(NotAPdf)}

InitFile ==
    /\ pc = "ready"
    /\ disk \in {Disk(TRUE, FileDiskEntries, o, f) :
                    o \in ExistingOutputs, f \in OutputFaults}
    /\ merge_call \in {[NoCall EXCEPT !.pdf_files = fl, !.overwrite = ow] :
                          fl \in SeqsUpTo(FilePaths, MaxPaths), ow \in BOOLEAN}
    /\ cli = NoCli
    /\ excel_file = <<>>
    /\ extract_result = NoExtract
    /\ eyf_ids = <<>>
    /\ uploaded_pdfs = <<>>
    /\ match_results = NoResults
    /\ pdf_items = <<>>
    /\ merge_state = NoMergeState
    /\ merge_return = NoReturn
    /\ merged_pdf = NoPdf
    /\ widgets = NoWidgets
    /\ ui = NoUi
    /\ report = NoReport
    /\ merge_pos = 0
    /\ stopped_runs = 0

CallMergePdfs ==
    /\ pc = "ready"
    /\ pc' = "done"
    /\ \E r \in {merge_pdfs(disk, merge_call.pdf_files, merge_call.overwrite)} :
           /\ disk' = r.disk
           /\ merge_call' = Returned(merge_call, r)
    /\ UNCHANGED <<excel_file, extract_result, eyf_ids, uploaded_pdfs, match_results,
                   pdf_items, merge_state, merge_return, merged_pdf, widgets, ui, cli,
                   report, merge_pos, stopped_runs>>

NextFile == CallMergePdfs

SpecFile == InitFile /\ [][NextFile]_vars

----------------------------------------------------------------------------
(* Specification of the command line: one run of main() *)

\* "1_A_KCS Records Consent_.pdf"
Waiver_1_A ==
    <<"1", "_", "A", "_", "K", "C", "S", " ", "R", "e", "c", "o", "r",
      "d", "s", " ", "C", "o", "n", "s", "e", "n", "t", "_", ".", "p",
      "d", "f">>

\* "1_B_KCS Records Consent_x.pdf"
Waiver_1_B ==
    <<"1", "_", "B", "_", "K", "C", "S", " ", "R", "e", "c", "o", "r",
      "d", "s", " ", "C", "o", "n", "s", "e", "n", "t", "_", "x", ".",
      "p", "d", "f">>

\* "2_A b_KCS Records Consent_.pdf"
Waiver_2_Ab ==
    <<"2", "_", "A", " ", "b", "_", "K", "C", "S", " ", "R", "e", "c",
      "o", "r", "d", "s", " ", "C", "o", "n", "s", "e", "n", "t", "_",
      ".", "p", "d", "f">>

\* "12_A_KCS Records Consent_.pdf"
Waiver_12_A ==
    <<"1", "2", "_", "A", "_", "K", "C", "S", " ", "R", "e", "c", "o",
      "r", "d", "s", " ", "C", "o", "n", "s", "e", "n", "t", "_", ".",
      "p", "d", "f">>

\* "1_A.pdf"
Short_1_A ==
    <<"1", "_", "A", ".", "p", "d", "f">>

\* "notes.txt"
Notes ==
    <<"n", "o", "t", "e", "s", ".", "t", "x", "t">>

\* "2_d.pdf"
Folder_2 ==
    <<"2", "_", "d", ".", "p", "d", "f">>

\* what a waiver folder may hold, in the order the directory is listed:
\* waivers of students 1 (two of them), 2 (a file that is no PDF) and 12,
\* a PDF and a text file whose names do not have the format, and a
\* directory
CliEntries ==
    << FileEntry(Waiver_1_A, OnePage), FileEntry(Waiver_1_B, TwoPages),
       FileEntry(Waiver_2_Ab, NotAPdf), FileEntry(Waiver_12_A, OnePage),
       FileEntry(Short_1_A, OnePage), FileEntry(Notes, NotAPdf),
       DirEntry(Folder_2) >>

\* the folders of the model: up to MaxFolder of the entries
CliFolders ==
    {es \in SeqsUpTo(Range(CliEntries), MaxFolder) :
        \A i, j \in DOMAIN es :
            i < j => \E a, b \in DOMAIN CliEntries :
                         a < b /\ es[i] = CliEntries[a] /\ es[j] = CliEntries[b]}

CliDisks ==
    {Disk(TRUE, es, o, f) : es \in CliFolders, o \in ExistingOutputs, f \in OutputFaults}
        \cup {Disk(FALSE, <<>>, o, f) : o \in ExistingOutputs, f \in OutputFaults}

\* the spreadsheet of the run: none at the path, students 2 and 1,
\* student 12, or a column holding text
CliExcels ==
    {[none |-> TRUE, sheet |-> <<>>],
     [none |-> FALSE, sheet |-> <<column_name, NumCell(4), NumCell(2)>>],
     [none |-> FALSE, sheet |-> <<column_name, NumCell(24)>>],
     [none |-> FALSE, sheet |-> <<column_name, StrCell(NoNumberText)>>]}

\* what the user types at the prompt, or the end of the input
Answers ==
    {[eof |-> TRUE, text |-> <<>>]} \cup
    {[eof |-> FALSE, text |-> t] :
        t \in {<<"y">>, <<"Y">>, <<" ", "y", " ">>, <<"n">>, <<"y", "e", "s">>, <<>>}}

InitCli ==
    /\ pc = "cli"
    /\ cli \in {[NoCli EXCEPT !.pc = "start", !.argc = n, !.excel = x] :
                   n \in {UsageArgc - 1, UsageArgc}, x \in CliExcels}
    /\ disk \in CliDisks
    /\ merge_call = NoCall
    /\ excel_file = <<>>
    /\ extract_result = NoExtract
    /\ eyf_ids = <<>>
    /\ uploaded_pdfs = <<>>
    /\ match_results = NoResults
    /\ pdf_items = <<>>
    /\ merge_state = NoMergeState
    /\ merge_return = NoReturn
    /\ merged_pdf = NoPdf
    /\ widgets = NoWidgets
    /\ ui = NoUi
    /\ report = NoReport
    /\ merge_pos = 0
    /\ stopped_runs = 0

\* the run goes from its start to the prompt, or ends before it
RunToPrompt ==
    /\ cli.pc = "start"
    /\ cli' = MainToPrompt(cli, disk)
    /\ UNCHANGED <<pc, excel_file, extract_result, eyf_ids, uploaded_pdfs,
                   match_results, pdf_items, merge_state, merge_return, merged_pdf,
                   widgets, ui, disk, merge_call, report, merge_pos, stopped_runs>>

\* the user answers the prompt, and the run goes to its end
AnswerPrompt ==
    /\ cli.pc = "prompt"
    /\ \E answer \in Answers :
           \E after \in {MainFromPrompt(cli, disk, merge_call, answer)} :
               /\ cli' = after.cli
               /\ disk' = after.disk
               /\ merge_call' = after.call
    /\ UNCHANGED <<pc, excel_file, extract_result, eyf_ids, uploaded_pdfs,
                   match_results, pdf_items, merge_state, merge_return, merged_pdf,
                   widgets, ui, report, merge_pos, stopped_runs>>

NextCli == RunToPrompt \/ AnswerPrompt

SpecCli == InitCli /\ [][NextCli]_vars

----------------------------------------------------------------------------
(* Specification of the reporter alone: any two lists, one call *)

\* the (eyf_id, files) pairs of the calls: two or three conflicting names
ReportPairs ==
    {DuplicateEntry(id, fs) :
        id \in IdStrings,
        fs \in {<<File(Name_1_a, OnePage), File(Name_1_b, OnePage)>>,
                <<File(Name_1_b, OnePage), File(Name_1_a, OnePage),
                  File(Name_12_a, OnePage)>>}}

InitReport ==
    /\ pc = "ready"
    /\ report \in {[NoReport EXCEPT !.missing_ids = m, !.duplicates = ds] :
                      m \in SeqsUpTo(IdStrings, MaxMissing),
                      ds \in SeqsUpTo(ReportPairs, MaxDuplicates)}
    /\ disk = NoDisk
    /\ merge_call = NoCall
    /\ cli = NoCli
    /\ excel_file = <<>>
    /\ extract_result = NoExtract
    /\ eyf_ids = <<>>
    /\ uploaded_pdfs = <<>>
    /\ match_results = NoResults
    /\ pdf_items = <<>>
    /\ merge_state = NoMergeState
    /\ merge_return = NoReturn
    /\ merged_pdf = NoPdf
    /\ widgets = NoWidgets
    /\ ui = NoUi
    /\ merge_pos = 0
    /\ stopped_runs = 0

CallReport ==
    /\ pc = "ready"
    /\ pc' = "done"
    /\ report' = [report EXCEPT
                      !.called = TRUE,
                      !.lines = generate_missing_report(report.missing_ids,
                                                        report.duplicates)]
    /\ UNCHANGED <<excel_file, extract_result, eyf_ids, uploaded_pdfs, match_results,
                   pdf_items, merge_state, merge_return, merged_pdf, widgets, ui,
                   disk, merge_call, cli, merge_pos, stopped_runs>>

NextReport == CallReport

SpecReport == InitReport /\ [][NextReport]_vars

----------------------------------------------------------------------------
(* Properties of the extractor, checked under SpecExtract *)

\* the row holding the column name: 1, 2 (the fallback) or 0 when neither
HeaderRowOf(sheet) ==
    IF Len(sheet) >= 1 /\ sheet[1] = column_name THEN 1
    ELSE IF Len(sheet) >= 2 /\ sheet[2] = column_name THEN 2
    ELSE 0

\* the non-empty cells of the identifier column, top to bottom
ColumnCells(sheet) ==
    IF HeaderRowOf(sheet) = 0 THEN <<>>
    ELSE LET below == SubSeq(sheet, HeaderRowOf(sheet) + 1, Len(sheet))
         IN  SelectSeq(below, LAMBDA c : c.kind # "nan")

AllNumbers(cells) == \A i \in DOMAIN cells : cells[i].kind = "num"

\* the integers that two or more cells of the column coerce to
RepeatedInts(cells) ==
    {n \in {cells[i].num \div 2 : i \in DOMAIN cells} :
        \E i, j \in DOMAIN cells :
            i # j /\ cells[i].num \div 2 = n /\ cells[j].num \div 2 = n}

\* the numbers (in halves) that two or more cells of the column hold
RepeatedNumbers(cells) ==
    {h \in {cells[i].num : i \in {k \in DOMAIN cells : cells[k].kind = "num"}} :
        \E i, j \in DOMAIN cells :
            i # j /\ cells[i] = NumCell(h) /\ cells[j] = NumCell(h)}

\* C10 as stated: whenever some number occurs more than once in the
\* identifier column, extraction fails with the duplicate-identifier error,
\* the error lists exactly the numbers that occur two or more times, and no
\* identifier list is returned.
C10_Original ==
    (pc = "done" /\ RepeatedNumbers(ColumnCells(excel_file)) # {}) =>
        /\ extract_result.kind = "Duplicate"
        /\ extract_result.duplicates =
               {Str(h \div 2) : h \in RepeatedNumbers(ColumnCells(excel_file))}
        /\ extract_result.ids = <<>>

\* C10 amended: when every non-empty cell of the identifier column is a
\* number and two or more cells coerce to the same integer, extraction fails
\* with the duplicate-identifier error, the error lists exactly the decimal
\* strings of the integers that two or more cells coerce to (each once, none
\* of the integers that one cell only coerces to), and no identifier list is
\* returned.
C10_DuplicateErrorListsRepeated ==
    (/\ pc = "done"
     /\ AllNumbers(ColumnCells(excel_file))
     /\ RepeatedInts(ColumnCells(excel_file)) # {}) =>
        /\ extract_result.kind = "Duplicate"
        /\ extract_result.duplicates =
               {Str(n) : n \in RepeatedInts(ColumnCells(excel_file))}
        /\ extract_result.ids = <<>>

\* C10 witness: a duplicate error on a column that also holds an identifier
\* occurring once
C10_Witness ==
    /\ pc = "done"
    /\ extract_result.kind = "Duplicate"
    /\ AllNumbers(ColumnCells(excel_file))
    /\ \E i \in DOMAIN ColumnCells(excel_file) :
           ColumnCells(excel_file)[i].num \div 2
               \notin RepeatedInts(ColumnCells(excel_file))

----------------------------------------------------------------------------
(* Properties of the matcher, checked under SpecMatch *)

\* the identifiers of a bucket of entries, in bucket order
EntryIds(bucket) == [i \in DOMAIN bucket |-> bucket[i].eyf_id]

\* name consists of the characters of id, then '_', then anything
HasIdPrefix(name, id) ==
    /\ Len(name) > Len(id)
    /\ SubSeq(name, 1, Len(id)) = id
    /\ name[Len(id) + 1] = "_"

\* the names of the candidate pool that carry the prefix of id
CandidateNames(files, id) ==
    {files[i].name : i \in {k \in DOMAIN files : HasIdPrefix(files[k].name, id)}}

\* C1: every identifier of a list without repeats is in exactly one of the
\* buckets matched, missing, duplicates: the buckets are pairwise disjoint,
\* cover the list, and their lengths add up to the length of the list.
C1_BucketsPartitionIdentifiers ==
    pc = "done" =>
        LET matched == EntryIds(match_results.matched)
            missing == match_results.missing
            duplicates == EntryIds(match_results.duplicates)
        IN  /\ Range(matched) \cap Range(missing) = {}
            /\ Range(matched) \cap Range(duplicates) = {}
            /\ Range(missing) \cap Range(duplicates) = {}
            /\ Range(matched) \cup Range(missing) \cup Range(duplicates) = Range(eyf_ids)
            /\ Len(matched) + Len(missing) + Len(duplicates) = Len(eyf_ids)
            /\ \A id \in Range(eyf_ids) :
                   Count(matched, id) + Count(missing, id) + Count(duplicates, id) = 1

\* C1 witness: a call that fills all three buckets
C1_Witness ==
    /\ pc = "done"
    /\ match_results.matched # <<>>
    /\ match_results.missing # <<>>
    /\ match_results.duplicates # <<>>

\* C2: an identifier is classified by the number of candidate names that
\* start with "{id}_": none gives missing, one gives matched with that name
\* and its bytes, two or more give duplicate with all the conflicting names;
\* with an empty pool every identifier is missing.
C2_ClassifiedByCount ==
    pc = "done" =>
        /\ \A id \in Range(eyf_ids) :
               LET names == CandidateNames(uploaded_pdfs, id)
                   matched == match_results.matched
                   duplicates == match_results.duplicates
               IN  /\ names = {} => Count(match_results.missing, id) = 1
                   /\ Cardinality(names) = 1 =>
                          \E i \in DOMAIN matched :
                              /\ matched[i].eyf_id = id
                              /\ matched[i].fname \in names
                              /\ \E k \in DOMAIN uploaded_pdfs :
                                     uploaded_pdfs[k] =
                                         File(matched[i].fname, matched[i].data)
                   /\ Cardinality(names) >= 2 =>
                          \E i \in DOMAIN duplicates :
                              /\ duplicates[i].eyf_id = id
                              /\ Range(duplicates[i].files) = names
                              /\ Len(duplicates[i].files) = Cardinality(names)
        /\ uploaded_pdfs = <<>> => match_results.missing = eyf_ids

\* C2 witness: an identifier with two conflicting names next to an
\* identifier with one name, and none missing
C2_Witness ==
    /\ pc = "done"
    /\ \E i \in DOMAIN match_results.duplicates :
           Len(match_results.duplicates[i].files) = 2
    /\ Len(match_results.matched) = 1
    /\ match_results.missing = <<>>

IsDigit(c) == \E i \in DOMAIN DigitChars : DigitChars[i] = c

RECURSIVE LeadingDigits(_)
\* the digits a name starts with
LeadingDigits(s) ==
    IF s = <<>> \/ ~IsDigit(Head(s)) THEN <<>>
    ELSE <<Head(s)>> \o LeadingDigits(Tail(s))

\* the number in front of name is exactly id, and a '_' follows it
NumberOfNameIs(name, id) ==
    /\ LeadingDigits(name) = id
    /\ Len(name) > Len(id)
    /\ name[Len(id) + 1] = "_"

\* C3: matching is prefix-exact: a file counts for an identifier only if its
\* name is the identifier followed immediately by '_'; an identifier that is
\* a proper prefix of the number in a name ("1" against "12_a") never gets
\* that file, as a match or as a conflict.
C3_PrefixExact ==
    pc = "done" =>
        /\ \A i \in DOMAIN match_results.matched :
               NumberOfNameIs(match_results.matched[i].fname,
                              match_results.matched[i].eyf_id)
        /\ \A i \in DOMAIN match_results.duplicates :
               \A k \in DOMAIN match_results.duplicates[i].files :
                   NumberOfNameIs(match_results.duplicates[i].files[k],
                                  match_results.duplicates[i].eyf_id)

\* C3 witness: "1" is asked for, "12_a" is the only file whose name starts
\* with a 1, and "1" is missing
C3_Witness ==
    /\ pc = "done"
    /\ Str(1) \in Range(eyf_ids)
    /\ \E i \in DOMAIN uploaded_pdfs : uploaded_pdfs[i].name = Name_12_a
    /\ \A i \in DOMAIN uploaded_pdfs : uploaded_pdfs[i].name \in {Name_12_a, Name_2_a}
    /\ Str(1) \in Range(match_results.missing)

----------------------------------------------------------------------------
(* Properties of the assembler, checked under SpecMerge *)

\* item k of the list was read and appended without an exception
Decoded(items, k) == items[k].pdf_bytes.error = "none"

DecodedItems(items) == {k \in DOMAIN items : Decoded(items, k)}

RECURSIVE PagesOfDecoded(_)
\* the pages of the items that decode, item after item
PagesOfDecoded(items) ==
    IF items = <<>> THEN <<>>
    ELSE (IF Decoded(items, 1) THEN items[1].pdf_bytes.pages ELSE <<>>)
             \o PagesOfDecoded(Tail(items))

\* the file names of the items that do not decode, in list order
NamesOfFailed(items) ==
    LET failed == SelectSeq(items, LAMBDA it : it.pdf_bytes.error # "none")
    IN  [i \in DOMAIN failed |-> failed[i].filename]

ErrorNames(errors) == [i \in DOMAIN errors |-> errors[i].filename]

\* what the writer's pages that were added from item k show, in writer order
ContentFrom(writer, k) ==
    LET own == SelectSeq(writer, LAMBDA pg : pg.item = k)
    IN  [i \in DOMAIN own |-> own[i].content]

\* C5: the pages of the output are the flattening of the items in list
\* order: pages of an earlier item come before pages of a later one, the
\* pages of one item keep their order, every item that decodes contributes
\* all of its pages (none dropped as a repeat of another page), and when
\* every item decodes the output is all pages of all items, item after item.
C5_PageOrderIsFlattening ==
    pc = "done" =>
        LET w == merge_state.writer
        IN  /\ \A i, j \in DOMAIN w :
                   i < j => \/ w[i].item < w[j].item
                            \/ w[i].item = w[j].item /\ w[i].no < w[j].no
            /\ \A k \in DecodedItems(pdf_items) :
                   ContentFrom(w, k) = pdf_items[k].pdf_bytes.pages
            /\ ~merge_return.none =>
                   /\ Len(merge_return.pages) = Len(w)
                   /\ \A i \in DOMAIN w : merge_return.pages[i] = w[i].content
            /\ (pdf_items # <<>> /\ DecodedItems(pdf_items) = DOMAIN pdf_items) =>
                   /\ ~merge_return.none
                   /\ merge_return.pages = PagesOfDecoded(pdf_items)

\* C5 witness: an item of two pages, then an item of one page that shows
\* what the first page of the other shows: three pages out
C5_Witness ==
    /\ pc = "done"
    /\ Len(pdf_items) = 2
    /\ pdf_items[1].pdf_bytes = TwoPages
    /\ pdf_items[2].pdf_bytes = OnePage
    /\ merge_return.pages = <<"p", "q", "p">>

\* C6 as stated: with corrupted items anywhere in the list, the output holds
\* exactly the pages of the valid items in list order, and the error list
\* holds exactly one entry per corrupted item, naming it, in list order.
C6_Original ==
    pc = "done" =>
        /\ merge_return.pages = PagesOfDecoded(pdf_items)
        /\ ErrorNames(merge_return.errors) = NamesOfFailed(pdf_items)

\* C7: when no item decodes, the output is absent and the error list has
\* one entry per item: as long as the list for a list of items none of which
\* decodes, empty for the empty list.
C7_NothingDecodedGivesNoneAndAllErrors ==
    (pc = "done" /\ DecodedItems(pdf_items) = {}) =>
        /\ merge_return.none
        /\ Len(merge_return.errors) = Len(pdf_items)
        /\ pdf_items = <<>> => merge_return.errors = <<>>

\* C7 witness: three items, none decodes, one of them fails on its second
\* page
C7_Witness ==
    /\ pc = "done"
    /\ Len(pdf_items) = 3
    /\ DecodedItems(pdf_items) = {}
    /\ \E k \in DOMAIN pdf_items : pdf_items[k].pdf_bytes = BrokenSecondPage
    /\ \E k \in DOMAIN pdf_items : pdf_items[k].pdf_bytes = NotAPdf
    /\ merge_return.none
    /\ Len(merge_return.errors) = 3

\* C8: the output is absent if and only if no item decoded; when an item
\* decoded, bytes are returned together with the errors of the other items.
C8_NoneIffNothingDecoded ==
    pc = "done" =>
        /\ merge_return.none <=> DecodedItems(pdf_items) = {}
        /\ DecodedItems(pdf_items) # {} =>
               ErrorNames(merge_return.errors) = NamesOfFailed(pdf_items)

\* C8 witness: one item decodes, another does not, bytes and one error are
\* returned
C8_Witness ==
    /\ pc = "done"
    /\ Cardinality(DecodedItems(pdf_items)) = 1
    /\ Len(pdf_items) = 2
    /\ ~merge_return.none
    /\ Len(merge_return.errors) = 1

\* C9 as stated: the result is absent only when no page at all was
\* produced: when the writer holds a page the result is present, and a
\* present result holds at least one page.
C9_Original ==
    pc = "done" =>
        /\ merge_state.writer # <<>> => ~merge_return.none
        /\ ~merge_return.none => merge_return.pages # <<>>

----------------------------------------------------------------------------
(* Properties of the interactive session, checked under Spec *)

\* the identifiers a bucket of duplicates names
ConflictNames(duplicates) ==
    UNION {Range(duplicates[i].files) : i \in DOMAIN duplicates}

\* C4: an identifier with two or more candidate files is excluded from
\* assembly: whenever a script run calls merge_pdfs_in_memory, the list it
\* hands over is exactly match_results['matched'], no item of it belongs to
\* an identifier of the duplicates or missing bucket or is one of the
\* conflicting files, every page of the writer comes from an item of that
\* list, and, while an identifier list is loaded, each item is the only
\* candidate of its identifier in the uploaded files.
C4_OnlyMatchedAssembled ==
    merge_return.called =>
        /\ pdf_items = AsItems(match_results.matched)
        /\ \A k \in DOMAIN pdf_items :
               /\ pdf_items[k].eyf_id \notin Range(EntryIds(match_results.duplicates))
               /\ pdf_items[k].eyf_id \notin Range(match_results.missing)
               /\ pdf_items[k].filename \notin ConflictNames(match_results.duplicates)
               /\ eyf_ids # <<>> =>
                      CandidateNames(uploaded_pdfs, pdf_items[k].eyf_id) =
                          {pdf_items[k].filename}
        /\ \A i \in DOMAIN merge_state.writer :
               merge_state.writer[i].item \in DOMAIN pdf_items

\* C4 witness: a run that assembles the waiver of one student while another
\* student has two conflicting files
C4_Witness ==
    /\ merge_return.called
    /\ match_results.duplicates # <<>>
    /\ Len(pdf_items) = 1
    /\ ~merge_return.none
    /\ merge_return.pages = <<"p">>

----------------------------------------------------------------------------
(* Header fallback, coercion and row order, checked under SpecExtract *)

\* the rows below the header row that hold a value
RowsWithValue(sheet) ==
    {r \in HeaderRowOf(sheet) + 1 .. Len(sheet) :
        HeaderRowOf(sheet) # 0 /\ sheet[r].kind # "nan"}

\* C11: the sheet is parsed with the header on row 1 first; it is parsed a
\* second time, with the header on row 2, exactly when row 1 does not name
\* the column, and never a third time; the column-not-found error is raised
\* exactly when neither row names the column, and a column found by either
\* parse whose cells are distinct whole-number values gives a list. A sheet
\* of one row that does not name the column violates it: the second parse
\* raises the reader's own ValueError, which does not name the column.
C11_HeaderFallback ==
    pc = "done" =>
        /\ extract_result.parses \in {<<0>>, <<0, 1>>}
        /\ extract_result.parses = <<0, 1>> <=>
               ~(Len(excel_file) >= 1 /\ excel_file[1] = column_name)
        /\ extract_result.kind = "ColumnNotFound" <=> HeaderRowOf(excel_file) = 0
        /\ (/\ HeaderRowOf(excel_file) # 0
            /\ AllNumbers(ColumnCells(excel_file))
            /\ RepeatedInts(ColumnCells(excel_file)) = {}) =>
               extract_result.kind = "ok"

\* C13: when the column is found and one of its non-empty cells cannot be
\* coerced to an integer, extraction fails with the coercion error and
\* returns no list, whatever the other cells hold. A cell holding one of
\* DefaultNaStrings violates it: the row is dropped and a list is returned.
C13_UnparsableCellFails ==
    (/\ pc = "done"
     /\ HeaderRowOf(excel_file) # 0
     /\ ~AllNumbers(ColumnCells(excel_file))) =>
        /\ extract_result.kind = "NotAnInteger"
        /\ extract_result.ids = <<>>

\* C14: a successful extraction returns one identifier for each row whose
\* cell holds a value, the decimal string of the integer of that row, in the
\* order of the rows. A row whose cell holds one of DefaultNaStrings violates
\* it: the cell is not empty and no identifier is returned for it.
C14_OneIdPerRowInOrder ==
    (pc = "done" /\ extract_result.kind = "ok") =>
        /\ Len(extract_result.ids) = Cardinality(RowsWithValue(excel_file))
        /\ \A i \in DOMAIN extract_result.ids :
               \E r \in RowsWithValue(excel_file) :
                   /\ Cardinality({q \in RowsWithValue(excel_file) : q <= r}) = i
                   /\ extract_result.ids[i] = Str(excel_file[r].num \div 2)

----------------------------------------------------------------------------
(* Order within the buckets, checked under SpecMatch *)

\* the identifiers of a bucket stand in the order they have in ids
InOrderOf(bucket_ids, ids) ==
    \A i, j \in DOMAIN bucket_ids :
        i < j =>
            \E a, b \in DOMAIN ids :
                a < b /\ ids[a] = bucket_ids[i] /\ ids[b] = bucket_ids[j]

\* C15: within each of the three buckets the entries appear in the same
\* relative order as their identifiers in the input list.
C15_BucketsKeepInputOrder ==
    pc = "done" =>
        /\ InOrderOf(EntryIds(match_results.matched), eyf_ids)
        /\ InOrderOf(match_results.missing, eyf_ids)
        /\ InOrderOf(EntryIds(match_results.duplicates), eyf_ids)

\* C15 witness: two matched identifiers around a missing one, the list not
\* in numeric order
C15_Witness ==
    /\ pc = "done"
    /\ eyf_ids = <<Str(2), Str(12), Str(1)>>
    /\ EntryIds(match_results.matched) = <<Str(2), Str(1)>>
    /\ match_results.missing = <<Str(12)>>

----------------------------------------------------------------------------
(* A failed extraction in the app, checked under Spec *)

\* C12 as stated: in a run of the script in which read_eyf_ids_from_excel
\* fails, the identifier list is empty and the run computes and offers no
\* match result, no merged document and no status report.
C12_Original ==
    ui.excel_msg = "error" =>
        /\ eyf_ids = <<>>
        /\ ui.step3 # "results"
        /\ ~merge_return.called
        /\ ~ui.generate_button
        /\ ~ui.download_merged
        /\ ui.report = "none"

----------------------------------------------------------------------------
(* Two calls of the assembler, checked under SpecTwice *)

\* C20: a second call of merge_pdfs_in_memory with the same list returns
\* what the first call returned: the same absent or present document, the
\* same pages in the same order and the same error list, whatever writer,
\* count and error list the first call left behind.
C20_SecondCallSame ==
    [][(pc = "second" /\ pc' = "again") => merge_return' = merge_return]_vars

\* C20 witness: a second call that has returned a document and an error
\* list, the list holding a file that contributed a page
C20_Witness ==
    /\ pc = "again"
    /\ ~merge_return.none
    /\ merge_return.errors # <<>>
    /\ Len(merge_return.pages) = 3

----------------------------------------------------------------------------
(* The overwrite guard and the written output, checked under SpecFile *)

\* the paths of the call whose file was appended: SUCCESS was printed
AppendedPaths(call) ==
    {k \in DOMAIN call.pdf_files :
        k \in DOMAIN call.log /\ call.log[k] = "SUCCESS"}

\* the inputs of the call that are valid PDF files of the folder
ValidInputs(d, call) ==
    {k \in DOMAIN call.pdf_files :
        \E i \in DOMAIN d.entries :
            /\ d.entries[i].name = call.pdf_files[k]
            /\ d.entries[i].kind = "file"
            /\ d.entries[i].data.error = "none"}

\* C18: a call of merge_pdfs with overwrite=False while the output path
\* exists returns without merging and leaves the disk as it was, whatever
\* the list of inputs.
C18_GuardLeavesOutputUnchanged ==
    [][(/\ pc = "ready" /\ pc' = "done"
        /\ disk.output.exists
        /\ ~merge_call.overwrite) =>
           /\ disk' = disk
           /\ merge_call'.skipped
           /\ merge_call'.successful_merges = 0
           /\ merge_call'.writer = <<>>]_vars

\* C18 witness: a call with three valid inputs that was stopped by the guard
C18_Witness ==
    /\ pc = "done"
    /\ merge_call.skipped
    /\ disk.output = OutputFile(NotAPdf)
    /\ Cardinality(ValidInputs(disk, merge_call)) = 3

LastLine(call) == call.log[Len(call.log)]

----------------------------------------------------------------------------
(* Confirmation and name validation on the command line, checked under
   SpecCli *)

\* the answer is 'y' or 'Y' with nothing but blanks around it
IsYes(answer) ==
    /\ ~answer.eof
    /\ \E i \in DOMAIN answer.text :
           /\ answer.text[i] \in {"y", "Y"}
           /\ \A k \in DOMAIN answer.text : k # i => answer.text[k] = " "

SummaryPrinted(c) == \E i \in DOMAIN c.printed : c.printed[i] = "Successfully 1:1 matched"

\* C16: the disk changes and merge_pdfs is called only in the step that
\* follows the prompt, after the summary was printed, when the answer,
\* trimmed and lower-cased, is 'y', and then merge_pdfs is called; with any
\* other answer the run ends with exit code 0, merge_pdfs is not called and
\* the disk is left as it was.
C16_NoOutputBeforeConfirmation ==
    [][/\ (disk' # disk \/ merge_call' # merge_call \/ (cli'.merged /\ ~cli.merged)) =>
              /\ cli.pc = "prompt"
              /\ SummaryPrinted(cli)
              /\ IsYes(cli'.answer)
       /\ (cli.pc = "prompt" /\ cli'.pc = "exited") =>
              IF IsYes(cli'.answer)
              THEN cli'.merged /\ merge_call'.returned /\ cli'.exit_code = 0
              ELSE /\ cli'.exit_code = 0
                   /\ ~cli'.merged
                   /\ disk' = disk
                   /\ merge_call' = merge_call]_vars

\* C16 witness: the answer ' y ' after which the output was written
C16_Witness ==
    /\ cli.pc = "exited"
    /\ cli.answer.text = <<" ", "y", " ">>
    /\ cli.merged
    /\ disk.output = OutputFile(OnePage)

\* the place of the first '_' of name after place from, or 0
FirstUnderscore(name, from) ==
    IF \E k \in (from + 1)..Len(name) : name[k] = "_"
    THEN CHOOSE k \in (from + 1)..Len(name) :
             name[k] = "_" /\ \A q \in (from + 1)..(k - 1) : name[q] # "_"
    ELSE 0

\* name has the format [EYF ID]_[Client name]_KCS Records Consent_...pdf:
\* digits up to the first '_', letters and blanks up to the second, which
\* starts "_KCS Records Consent_", and ".pdf" at the end, after it
NameConforms(name) ==
    LET u == FirstUnderscore(name, 0)
        v == FirstUnderscore(name, u)
    IN  /\ u > 1
        /\ \A k \in 1..(u - 1) : name[k] \in {"0", "1", "2", "3", "4", "5", "6", "7", "8", "9"}
        /\ v > u + 1
        /\ \A k \in (u + 1)..(v - 1) : name[k] \in NameChars
        /\ Len(name) >= v - 1 + Len(ConsentInfix) + Len(PdfSuffix)
        /\ SubSeq(name, v, v - 1 + Len(ConsentInfix)) = ConsentInfix
        /\ SubSeq(name, Len(name) - 3, Len(name)) = PdfSuffix

\* the folder holds a file whose name does not have the format
HasNonConformingFile(d) ==
    \E i \in DOMAIN d.entries :
        d.entries[i].kind = "file" /\ ~NameConforms(d.entries[i].name)

\* C17: when a file of the folder has a name that does not have the
\* format, the run never reaches the prompt, and when it has ended its exit
\* code is 1, no matching was done, no summary was printed, merge_pdfs was
\* not called and the output path is as it was.
C17_NonConformingNameStopsRun ==
    HasNonConformingFile(disk) =>
        /\ cli.pc \in {"start", "exited"}
        /\ cli.pc = "exited" =>
               /\ cli.exit_code = 1
               /\ cli.matches = <<>>
               /\ cli.pdfs_to_combine = <<>>
               /\ ~SummaryPrinted(cli)
               /\ ~cli.merged
               /\ merge_call = NoCall
               /\ disk.output \in ExistingOutputs

\* C17 witness: a run ended by the name check, the folder holding a waiver
\* of student 1 and a file "1_A.pdf", the spreadsheet read
C17_Witness ==
    /\ cli.pc = "exited"
    /\ cli.exit_code = 1
    /\ cli.printed = <<"ERROR: Some files do not match the expected format">>
    /\ \E i, j \in DOMAIN disk.entries :
           disk.entries[i].name = Waiver_1_A /\ disk.entries[j].name = Short_1_A

----------------------------------------------------------------------------
(* The sections of the report, checked under SpecReport *)

\* the number of lines of the report of the kind tag
LinesOf(tag) == Cardinality({i \in DOMAIN report.lines : report.lines[i].tag = tag})

\* the lines of the kinds in tags, in the order of the report
Listed(tags) == SelectSeq(report.lines, LAMBDA l : l.tag \in tags)

RECURSIVE PairsFlat(_)
\* each identifier of the pairs followed by its file names
PairsFlat(pairs) ==
    IF pairs = <<>> THEN <<>>
    ELSE <<Head(pairs).eyf_id>> \o Head(pairs).files \o PairsFlat(Tail(pairs))

\* C21: the report holds the missing header once if the missing list is
\* non-empty and not at all if it is empty, likewise the duplicates header
\* for the duplicates list, and the affirmative line once if both lists are
\* empty and not at all otherwise; without a section there is no line of
\* that section.
C21_SectionsIffNonEmpty ==
    pc = "done" =>
        /\ LinesOf("MISSING WAIVERS") = IF report.missing_ids # <<>> THEN 1 ELSE 0
        /\ LinesOf("DUPLICATE FILES") = IF report.duplicates # <<>> THEN 1 ELSE 0
        /\ LinesOf("All students have exactly one waiver on file.") =
               IF report.missing_ids = <<>> /\ report.duplicates = <<>> THEN 1 ELSE 0
        /\ report.missing_ids = <<>> => LinesOf("EYF ID") = 0
        /\ report.duplicates = <<>> => LinesOf("EYF ID of files") + LinesOf("file") = 0
        /\ LinesOf("rule") = 1 + LinesOf("MISSING WAIVERS") + LinesOf("DUPLICATE FILES")

\* C21 witness: a report with a duplicates section and no missing section
C21_Witness ==
    /\ pc = "done"
    /\ report.missing_ids = <<>>
    /\ Len(report.duplicates) = 2
    /\ LinesOf("DUPLICATE FILES") = 1

\* C22: the number in the missing header is len(missing) and the lines
\* below it show the missing identifiers, each once, in list order; the
\* number in the duplicates header is len(duplicates) and the lines below
\* it show each duplicate identifier followed by all of its file names.
C22_CountsAndListings ==
    pc = "done" =>
        /\ \A i \in DOMAIN report.lines :
               /\ report.lines[i].tag = "MISSING WAIVERS" =>
                      report.lines[i].n = Len(report.missing_ids)
               /\ report.lines[i].tag = "DUPLICATE FILES" =>
                      report.lines[i].n = Len(report.duplicates)
        /\ [i \in DOMAIN Listed({"EYF ID"}) |-> Listed({"EYF ID"})[i].text]
               = report.missing_ids
        /\ [i \in DOMAIN Listed({"EYF ID of files", "file"}) |->
               Listed({"EYF ID of files", "file"})[i].text]
               = PairsFlat(report.duplicates)
        /\ \A i, j \in DOMAIN report.lines :
               (report.lines[i].tag = "EYF ID" /\ report.lines[j].tag = "EYF ID of files")
                   => i < j

\* C22 witness: a report of two missing identifiers and of two duplicate
\* identifiers, one of them with three file names
C22_Witness ==
    /\ pc = "done"
    /\ Len(report.missing_ids) = 2
    /\ Len(report.duplicates) = 2
    /\ Len(report.duplicates[1].files) = 3
    /\ Len(report.lines) = 19

----------------------------------------------------------------------------
(* The messages of step 4, checked under Spec *)

\* C23 as stated: a run that calls the assembler shows the 'Could not merge'
\* error exactly when the assembler returned None, and the 'Merged with n
\* skipped files' warning exactly when it returned a document and a
\* non-empty error list, n being the length of that list; a run shows at
\* most one of the two, and a run that does not call the assembler shows
\* neither. A run stopped at the call of st.warning (255) or st.error (259)
\* has the outcome of the assembler, and the document already stored at 253,
\* and shows no message.
C23_Original ==
    /\ merge_return.called =>
           /\ ui.merge_msg = "could_not_merge" <=> merge_return.none
           /\ ui.merge_msg = "merged_with_skipped" <=>
                  (~merge_return.none /\ merge_return.errors # <<>>)
           /\ ui.merge_msg = "merged_with_skipped" =>
                  (ui.skipped = Len(merge_return.errors) /\ ui.skipped > 0)
    /\ ~merge_return.called => ui.merge_msg = "none"

----------------------------------------------------------------------------
(* Failing items of the assembler, checked under SpecMerge *)

\* C24 as stated: an item of the error list contributes no page: every page
\* of the writer was added from an item that decodes.
C24_Original ==
    pc = "done" =>
        \A i \in DOMAIN merge_state.writer :
            Decoded(pdf_items, merge_state.writer[i].item)

\* C25: when the loop has ended every item is accounted for once: the
\* counter is the number of items that decode, the counter and the length
\* of the error list add up to the number of items, and the error list
\* names the failing items in the order they have in the input.
C25_EveryItemAccountedOnce ==
    pc = "done" =>
        /\ merge_state.successful + Len(merge_state.errors) = Len(pdf_items)
        /\ merge_state.successful = Cardinality(DecodedItems(pdf_items))
        /\ merge_return.errors = merge_state.errors
        /\ ErrorNames(merge_state.errors) = NamesOfFailed(pdf_items)

\* C25 witness: three items, the first and the last failing, with different
\* names, one of them after a page of it was added
C25_Witness ==
    /\ pc = "done"
    /\ Len(pdf_items) = 3
    /\ merge_state.successful = 1
    /\ ErrorNames(merge_state.errors) = <<Name_1_b, Name_1_a>>
    /\ pdf_items[1].pdf_bytes = BrokenSecondPage

----------------------------------------------------------------------------
(* The merged document on offer, checked under Spec *)

\* C26 as stated: whenever the download of the merged document is offered,
\* session_state.merged_pdf is what assembling the current
\* match_results['matched'] gives: a document, with those pages.
C26_Original ==
    ui.download_merged =>
        \E now \in {merge_pdfs_in_memory(AsItems(match_results.matched))} :
            /\ ~now.none
            /\ ~merged_pdf.none
            /\ merged_pdf.pages = now.pages

----------------------------------------------------------------------------
(* One identifier per candidate, checked under SpecMatch *)

\* the number of entries of matched and duplicates that hold name
EntriesHolding(results, name) ==
    Cardinality({i \in DOMAIN results.matched : results.matched[i].fname = name})
        + Cardinality({i \in DOMAIN results.duplicates :
                          \E j \in DOMAIN results.duplicates[i].files :
                              results.duplicates[i].files[j] = name})

\* C27: for a list of distinct decimal identifiers, every uploaded name is
\* held by at most one entry of matched and duplicates taken together, and
\* no name is matched to two identifiers.
C27_NoCandidateForTwoIdentifiers ==
    pc = "done" =>
        /\ \A k \in DOMAIN uploaded_pdfs :
               EntriesHolding(match_results, uploaded_pdfs[k].name) <= 1
        /\ \A i, j \in DOMAIN match_results.matched :
               match_results.matched[i].fname = match_results.matched[j].fname => i = j

\* C27 witness: the identifiers 1 and 12 matched to the files 1_a and 12_a
C27_Witness ==
    /\ pc = "done"
    /\ eyf_ids = <<Str(1), Str(12)>>
    /\ Len(match_results.matched) = 2
    /\ match_results.matched[1].fname = Name_1_a
    /\ match_results.matched[2].fname = Name_12_a

----------------------------------------------------------------------------
(* The two matchers, checked under SpecCli *)

\* the files of the folder as the dict the interactive matcher is given
FolderAsUploads(d) ==
    LET files == SelectSeq(d.entries, LAMBDA e : e.kind = "file")
    IN  [i \in DOMAIN files |-> File(files[i].name, files[i].data)]

\* the identifiers for which the command line found n paths (n = 0), or
\* more than one (n = 2), in list order
IdsWithPaths(matches, n) ==
    LET sel == SelectSeq(matches, LAMBDA m : IF n = 0 THEN Len(m.filepaths) = 0
                                             ELSE Len(m.filepaths) > 1)
    IN  [i \in DOMAIN sel |-> sel[i].eyf_id]

\* the two matchers agree on the run that has reached the prompt
MatchersAgree ==
    \E r \in {match_uploaded_pdfs_to_eyf_ids(FolderAsUploads(disk), cli.eyf_ids)} :
        /\ cli.pdfs_to_combine = [i \in DOMAIN r.matched |-> r.matched[i].fname]
        /\ IdsWithPaths(cli.matches, 0) = r.missing
        /\ IdsWithPaths(cli.matches, 2) = EntryIds(r.duplicates)

\* C28 as stated: when the names of all files of the folder pass the
\* validation (the run has reached the prompt), the files the command line
\* selects are those of the matched bucket of the interactive matcher over
\* the names of the files, in the same order, and the identifiers it
\* reports without or with several waivers are the missing and the
\* duplicates bucket.
C28_Original ==
    cli.pc = "prompt" => MatchersAgree

\* the agreement holds for the folders that hold files only
AgreementWithoutDirectories ==
    (cli.pc = "prompt" /\ \A i \in DOMAIN disk.entries : disk.entries[i].kind = "file")
        => MatchersAgree

====
